---- MODULE Spec2Model ----
(***************************************************************************)
(* HashPay: the escrow screen (src/screens/ReceiveScreen.tsx,              *)
(* EscrowScreen), the swap screen (src/screens/SwapScreen.tsx) and the     *)
(* transaction history screen (src/unnamed/part_001), together with the    *)
(* wallet context they drive.                                              *)
(*                                                                         *)
(* The screens' handlers are modelled from the source.  The wallet context *)
(* (createEscrow, releaseEscrow, createEscrowOnChain, swapAssets,          *)
(* contacts, prices, isLoading, the ledger and the transaction log) is     *)
(* imported from '../WalletContext', which is not among the sources; those *)
(* operators are modelled from the design document (sections 4.1 to 4.5)   *)
(* and are marked "design document" below.                                 *)
(*                                                                         *)
(* handleAction(id, action) is the entry point of sign / dispute /         *)
(* release and has no guard of its own.  The buttons that call it are      *)
(* rendered only for pending escrows of the Active tab.  Spec is the       *)
(* escrow screen as it runs: every handler call comes from a rendered      *)
(* button.  SpecCalls lets handleAction be called with any id and action,  *)
(* as its signature allows; it is used for what the handler does when it   *)
(* is called on an escrow whose buttons are not rendered.                  *)
(*                                                                         *)
(* SpecSwap is the swap screen under one price snapshot, SpecPrices the    *)
(* swap screen while the price cache is refreshed, SpecHistory the         *)
(* transaction history screen over a log that grows, SpecQuery the history *)
(* screen's filters and statistics over a stored log read at a given time. *)
(*                                                                         *)
(* The cross-border transfer (resolve, transfer) has no code among the     *)
(* sources; SpecTransfer models it from section 4.6 of the design          *)
(* document.                                                               *)
(***************************************************************************)
EXTENDS Integers, Sequences, FiniteSets, TLC

VARIABLES
    activeTab,      \* useState<'create' | 'active'>  (line 257)
    escrows,        \* the registry: useWallet().escrows, in creation order
    createdAt,      \* history: creation time of each registry entry
    wallets,        \* the ledger: balance per currency of the creator
    transactions,   \* the transaction log
    pendingOnChain, \* createEscrowOnChain calls awaited by handleCreateEscrow,
                    \* each with the result of the local createEscrow before it
    now,            \* Date.now(), in ms since the session started
    lastOp,         \* history: the last handler step and what it observed
    prices,         \* the price cache: useWallet().prices
    isLoading,      \* useWallet().isLoading
    swapMounted,    \* the swap screen is on display
    fromAsset,      \* useState(wallets[0] || ...)            (SwapScreen, line 14)
    toAsset,        \* useState(wallets[1] || ...)            (line 15)
    swapAmount,     \* useState(''): the text of the amount input  (line 16)
    showAssetModal, \* useState<'from' | 'to' | null>(null)   (line 52)
    useMesh,        \* useState(false)                        (line 53)
    pendingSwaps,   \* swapAssets calls awaited by handleSwap
    lastSwap,       \* history: the last handleSwap call and what it observed
    searchQuery,    \* useState('')                 (TransactionHistoryScreen, line 20)
    typeFilter,     \* useState<FilterType>('all')  (line 21)
    dateFilter,     \* useState<DateFilter>('all')  (line 22)
    showFilters,    \* useState(false)              (line 23)
    showExportMenu, \* useState(false)              (line 24)
    pendingExports, \* exportToPDF calls that have not finished
    lastHist,       \* history: the last handler step of the history screen
    clock,          \* new Date() as the history screen reads it, in minutes
                    \* since 1 January 2023, 00:00
    resolution,     \* cross-border transfer: what resolve returned for the
                    \* recipient entered
    lastTransfer    \* history: the last resolve or transfer call

\* the state of the escrow screen and of the ledger, registry and log
escrowVars == <<activeTab, escrows, createdAt, pendingOnChain, now, lastOp>>

\* the state of the swap screen and of the price cache
swapVars == <<prices, isLoading, swapMounted, fromAsset, toAsset, swapAmount,
              showAssetModal, useMesh, pendingSwaps, lastSwap>>

\* the state of the transaction history screen
historyVars == <<searchQuery, typeFilter, dateFilter, showFilters,
                 showExportMenu, pendingExports, lastHist, clock>>

\* the state of the cross-border transfer
transferVars == <<resolution, lastTransfer>>

vars == <<activeTab, escrows, createdAt, wallets, transactions,
          pendingOnChain, now, lastOp, prices, isLoading, swapMounted,
          fromAsset, toAsset, swapAmount, showAssetModal, useMesh,
          pendingSwaps, lastSwap, searchQuery, typeFilter, dateFilter,
          showFilters, showExportMenu, pendingExports, lastHist, clock,
          resolution, lastTransfer>>

----------------------------------------------------------------------------
(* Bounds *)

MaxEscrows == 2

MaxInflight == 1

InitBalanceUSD == 1000

InitBalanceSUI == 300

Amounts == {500}

Currencies == {"USD", "SUI"}

Recipients == {"Jane Cooper", "Bob"}

(* Program constants *)

\* newId = Date.now().toString().slice(-6): the last six decimal digits
IdMod == 1000000

\* expiryDate: '7 Days', in milliseconds
SevenDaysMs == 604800000

\* an id that no registry entry carries
UnknownId == -1

\* the clock readings: the start of the session, a millisecond later, the
\* reading whose last six digits are those of the start again, and a
\* millisecond past the expiry period of an escrow created at the start
Times == {0, 1, IdMod, SevenDaysMs + 1}

Statuses == {"pending", "signed", "disputed", "released", "refunded", "expired"}

TerminalStatuses == {"released", "refunded", "expired"}

Actions == {"sign", "dispute", "release"}

----------------------------------------------------------------------------
(* Contact directory: useWallet().contacts  (design document, section 2) *)

contacts == {[name |-> "Jane Cooper", address |-> "0xJANE"]}

\* const contact = contacts.find(c => c.name === recipient);
\* const recipientAddress = contact?.address || recipient;
RecipientAddress(recipient) ==
    IF \E c \in contacts : c.name = recipient
    THEN (CHOOSE c \in contacts : c.name = recipient).address
    ELSE recipient

----------------------------------------------------------------------------
(* The entry handleCreateEscrow hands to createEscrow (lines 274-280).     *)
(* amount is the template string `${amount} ${currency}`, kept as the pair *)
(* of its two parts.                                                       *)

NewEscrowEntry_active(newId, amount, currency, recipient) ==
    [id |-> newId, amount |-> <<amount, currency>>, recipient |-> recipient,
     expiryDate |-> "7 Days", status |-> "active"]

NewEscrowEntry(newId, amount, currency, recipient) ==
    [id |-> newId, amount |-> <<amount, currency>>, recipient |-> recipient,
     expiryDate |-> "7 Days", status |-> "pending"]

\* const newId = Date.now().toString().slice(-6);
NewId(t) == t % IdMod

----------------------------------------------------------------------------
(* Wallet context, from the design document *)

\* the numeric part and the currency part of an entry's amount string
AmountOf(entry) == entry.amount[1]

CurrencyOf(entry) == entry.amount[2]

\* 4.1 debit: fails InsufficientFunds if the result would be negative
debitResult(w, symbol, amount) ==
    IF w[symbol] - amount < 0 THEN "InsufficientFunds" ELSE "ok"

debit(w, symbol, amount) ==
    IF debitResult(w, symbol, amount) = "ok"
    THEN [w EXCEPT ![symbol] = @ - amount]
    ELSE w

\* 4.4 create: debits the creator, then adds the entry; aborts if the debit
\* fails.  The result is returned to the caller.
createEscrowResult(w, entry) == debitResult(w, CurrencyOf(entry), AmountOf(entry))

createEscrowWallets(w, entry) == debit(w, CurrencyOf(entry), AmountOf(entry))

createEscrowRegistry(reg, w, entry) ==
    IF createEscrowResult(w, entry) = "ok" THEN Append(reg, entry) ELSE reg

\* lookup of an escrow by id: the first registry entry that carries it, 0 if none
FindEscrow(reg, id) ==
    IF \E i \in 1..Len(reg) : reg[i].id = id
    THEN CHOOSE i \in 1..Len(reg) :
            reg[i].id = id /\ \A j \in 1..(i-1) : reg[j].id # id
    ELSE 0

\* 4.4 release: {pending, signed, disputed} -> released, NotFound if unknown,
\* InvalidTransition from any other status
releaseEscrowResult(reg, id) ==
    LET i == FindEscrow(reg, id) IN
    IF i = 0 THEN "NotFound"
    ELSE IF reg[i].status \in {"pending", "signed", "disputed"} THEN "ok"
    ELSE "InvalidTransition"

releaseEscrowRegistry(reg, id) ==
    IF releaseEscrowResult(reg, id) = "ok"
    THEN [reg EXCEPT ![FindEscrow(reg, id)].status = "released"]
    ELSE reg

\* 4.3 / 4.4: release appends one sent entry attributed to the creator.
\* escrowId is a history field: the escrow the entry settles.
releaseEscrowLog(log, reg, id) ==
    IF releaseEscrowResult(reg, id) = "ok"
    THEN LET e == reg[FindEscrow(reg, id)] IN
         Append(log, [id |-> Len(log) + 1, type |-> "sent",
                      amount |-> AmountOf(e), currency |-> CurrencyOf(e),
                      recipient |-> e.recipient, date |-> "Today",
                      escrowId |-> e.id])
    ELSE log

----------------------------------------------------------------------------
(* The ledger at the start of the session *)

InitWallets == [c \in Currencies |-> IF c = "USD" THEN InitBalanceUSD ELSE InitBalanceSUI]

----------------------------------------------------------------------------
(* History records *)

NoToast == [msg |-> "", kind |-> ""]

NoOp ==
    [op |-> "none", idx |-> 0, pre |-> "none",
     result |-> "none", toast |-> NoToast, issued |-> FALSE, warned |-> FALSE,
     balBefore |-> InitWallets, logLenBefore |-> 0, afterCreate |-> FALSE]

\* op: the handler step; idx: the registry entry the step is about (0 if
\* none); pre: that entry's status before the step; result: what the
\* wallet-context call returned ("none" when the step makes no such call);
\* afterCreate: the handler step before this one created that entry
OpRecord(op, idx, result, toast, issued, warned) ==
    [op |-> op, idx |-> idx,
     pre |-> IF idx \in 1..Len(escrows) THEN escrows[idx].status ELSE "none",
     result |-> result, toast |-> toast, issued |-> issued, warned |-> warned,
     balBefore |-> wallets, logLenBefore |-> Len(transactions),
     afterCreate |-> lastOp.op = "create" /\ lastOp.result = "ok" /\ lastOp.idx = idx]

----------------------------------------------------------------------------
(* What the screen renders *)

\* the Initialize Escrow button is part of the Create tab (lines 337, 400-405)
CreateButtonShown == activeTab = "create"

\* the Active tab lists every escrow; the Sign, Stubborn and Release Funds
\* buttons of an entry are rendered while its status is pending, and pass
\* the entry's id (lines 410, 434-458)
ActionButtonsShown(id) ==
    /\ activeTab = "active"
    /\ \E i \in 1..Len(escrows) : escrows[i].id = id /\ escrows[i].status = "pending"

----------------------------------------------------------------------------
(* Swap screen (src/screens/SwapScreen.tsx) and the wallet context it      *)
(* drives.  Amounts, balances and quotes are counted in millionths of a    *)
(* unit; a rate is the pair <<numerator, denominator>>.                    *)

\* maximumFractionDigits: 6 and toFixed(6): one unit is 10^6 millionths
Micro == 1000000

MaxSwaps == 2

Assets == {"SUI", "USDC"}

\* wallets[0] and wallets[1] of the context's wallet list
WalletOrder == <<"SUI", "USDC">>

InitSwapWallets == [s \in Assets |-> IF s = "SUI" THEN 200 * Micro ELSE 100 * Micro]

\* price snapshots: rate(SUI) = 1.5 and rate(USDC) = 1.0, and a cache that
\* holds no rate for SUI
FullPrices == [s \in Assets |-> IF s = "SUI" THEN <<3, 2>> ELSE <<1, 1>>]

PartialPrices == [s \in {"USDC"} |-> <<1, 1>>]

PriceSnapshots == {FullPrices, PartialPrices}

\* the texts typed into the amount input: '', '0' and '100'
AmountTexts == {<<>>, <<0>>, <<100 * Micro>>}

\* parseFloat(amount) of a non-empty amount text
ParseFloat(text) == text[1]

\* n / d rounded to the nearest integer, halves up (n >= 0, d > 0)
RoundDiv(n, d) == (n \div d) + (IF 2 * (n % d) >= d THEN 1 ELSE 0)

\* prices[symbol] || 1  (lines 21-22; part_001 lines 115, 121)
GetRate(p, symbol) ==
    IF symbol \in DOMAIN p /\ p[symbol][1] # 0 THEN p[symbol] ELSE <<1, 1>>

\* (parseFloat(amount) * fromRate) / toRate  (line 23), as a fraction
OutputNum(a, fromRate, toRate) == a * fromRate[1] * toRate[2]

OutputDen(fromRate, toRate) == fromRate[2] * toRate[1]

\* the number of trailing zeros among the six fractional digits of v
TrailingZeros(v) ==
    CHOOSE k \in 0..6 : /\ v % (10 ^ k) = 0
                        /\ \A j \in (k + 1)..6 : v % (10 ^ j) # 0

\* output.toLocaleString(undefined, {minimumFractionDigits: 2,
\* maximumFractionDigits: 6}) (line 24): the value rounded to six fractional
\* digits, shown with as many fractional digits as it needs, at least two.
\* The text is kept as the value and the number of fractional digits shown.
ToLocaleString(n, d) ==
    LET v == RoundDiv(n, d)
        needed == 6 - TrailingZeros(v)
    IN [micro |-> v, digits |-> IF needed < 2 THEN 2 ELSE needed]

\* the estimatedOutput effect (lines 19-28)
EstimatedOutput(text, from, to, p) ==
    IF text # <<>> /\ ParseFloat(text) > 0
    THEN ToLocaleString(OutputNum(ParseFloat(text), GetRate(p, from), GetRate(p, to)),
                        OutputDen(GetRate(p, from), GetRate(p, to)))
    ELSE [micro |-> 0, digits |-> 2]

\* (prices[from] / prices[to]).toFixed(6) of the Exchange Rate row (line 157):
\* a symbol the cache does not hold reads as undefined and the row shows NaN
ExchangeRateRow(from, to, p) ==
    IF from \in DOMAIN p /\ to \in DOMAIN p
    THEN [nan |-> FALSE,
          micro |-> RoundDiv(p[from][1] * p[to][2] * Micro, p[from][2] * p[to][1]),
          digits |-> 6]
    ELSE [nan |-> TRUE, micro |-> 0, digits |-> 0]

\* the copy of a wallet entry the screen keeps: its symbol and its balance
\* at the time of the copy (lines 14-15, 59, 204)
AssetSnapshot(w, symbol) ==
    [symbol |-> symbol, balance |-> IF symbol \in DOMAIN w THEN w[symbol] ELSE 0]

\* Object.keys(prices) (line 56): the assets the selection modal lists
AssetsList(p) == DOMAIN p

(* Wallet context, from the design document (sections 4.1, 4.2, 4.5) *)

\* 4.1 credit: increases the balance, creating the entry at zero if absent
credit_overwrite(w, symbol, amount) ==
    IF symbol \in DOMAIN w
    THEN [w EXCEPT ![symbol] = amount]
    ELSE w @@ (symbol :> amount)

credit(w, symbol, amount) ==
    IF symbol \in DOMAIN w
    THEN [w EXCEPT ![symbol] = @ + amount]
    ELSE w @@ (symbol :> amount)

\* 4.2 getRate: unknown symbols default to 1
getRate(p, symbol) == IF symbol \in DOMAIN p THEN p[symbol] ELSE <<1, 1>>

\* 4.5 quote: amount x rate(from) / rate(to), to the ledger's precision
quoteSwap(p, from, to, amount) ==
    RoundDiv(amount * getRate(p, from)[1] * getRate(p, to)[2],
             getRate(p, from)[2] * getRate(p, to)[1])

\* 4.5 execute: amount > 0 else InvalidAmount, amount <= balance(from) else
\* InsufficientFunds; debits from, credits to with the quoted output and
\* appends the correlated outflow and inflow entries, all at once
executeSwapResult(w, from, amount) ==
    IF amount <= 0 THEN "InvalidAmount"
    ELSE IF amount > w[from] THEN "InsufficientFunds"
    ELSE "ok"

executeSwapWallets_debitOnly(w, p, from, to, amount) ==
    IF executeSwapResult(w, from, amount) = "ok"
    THEN debit(w, from, amount)
    ELSE w

executeSwapWallets(w, p, from, to, amount) ==
    IF executeSwapResult(w, from, amount) = "ok"
    THEN credit(debit(w, from, amount), to, quoteSwap(p, from, to, amount))
    ELSE w

executeSwapLog(log, w, p, from, to, amount) ==
    IF executeSwapResult(w, from, amount) = "ok"
    THEN log \o <<[id |-> Len(log) + 1, type |-> "sent", amount |-> amount,
                   currency |-> from, recipient |-> "Swap", date |-> "Today",
                   escrowId |-> UnknownId],
                  [id |-> Len(log) + 2, type |-> "received",
                   amount |-> quoteSwap(p, from, to, amount),
                   currency |-> to, recipient |-> "Swap", date |-> "Today",
                   escrowId |-> UnknownId]>>
    ELSE log

\* the swap screen before it is first shown
NoAsset == [symbol |-> "", balance |-> 0]

\* history of the swap screen: the last handleSwap call.  called: the
\* handler reached swapAssets; toast: the toast the handler showed.  Of a
\* call that reached swapAssets: from, to, amount: the selected symbols and
\* the parsed amount; result: what swapAssets returned; credited: the amount
\* it credited; mesh: the routing flag at the time; balBefore, pricesAt: the
\* ledger and the price cache before the call; stale: the balance the
\* handler compared with was not the ledger's; reverses: the call swaps back
\* what the successful call before it credited, at the same prices;
\* origBefore: the ledger before that earlier call
NoSwap ==
    [op |-> "none", from |-> "", to |-> "", amount |-> 0, called |-> FALSE,
     result |-> "none", toast |-> NoToast, credited |-> 0, mesh |-> FALSE,
     balBefore |-> InitSwapWallets, pricesAt |-> FullPrices, stale |-> FALSE,
     reverses |-> FALSE, origBefore |-> InitSwapWallets]

SwapRecord(called, result, toast) ==
    LET from == fromAsset.symbol
        to   == toAsset.symbol
        a    == ParseFloat(swapAmount)
        reverses == /\ result = "ok"
                    /\ lastSwap.result = "ok"
                    /\ lastSwap.to = from
                    /\ lastSwap.from = to
                    /\ lastSwap.credited = a
                    /\ lastSwap.pricesAt = prices
    IN
    IF called
    THEN [op |-> "swap", from |-> from, to |-> to, amount |-> a, called |-> TRUE,
          result |-> result, toast |-> toast,
          credited |-> IF result = "ok" THEN quoteSwap(prices, from, to, a) ELSE 0,
          mesh |-> useMesh, balBefore |-> wallets, pricesAt |-> prices,
          stale |-> fromAsset.balance # wallets[from],
          reverses |-> reverses,
          origBefore |-> IF reverses THEN lastSwap.balBefore ELSE wallets]
    ELSE [NoSwap EXCEPT !.op = "swap", !.toast = toast, !.balBefore = wallets,
                        !.origBefore = wallets,
                        !.stale = fromAsset.balance # wallets[from]]

----------------------------------------------------------------------------
(* Dates.  A Date is kept as its time value in minutes since 1 January     *)
(* 2023, 00:00; the session runs in UTC, so local time is UTC.  Months are *)
(* numbered from 1.  The operators below are the Date constructor, getters *)
(* and setters the history screen uses (part_001, lines 28-51 and 74-103). *)

MinutesPerDay == 24 * 60

IsLeapYear(y) == y % 4 = 0 /\ (y % 100 # 0 \/ y % 400 = 0)

DaysInYear(y) == IF IsLeapYear(y) THEN 366 ELSE 365

\* the days from 1 January 2023 to 1 January of year y
RECURSIVE DaysBeforeYear(_)
DaysBeforeYear(y) ==
    IF y = 2023 THEN 0
    ELSE IF y > 2023 THEN DaysBeforeYear(y - 1) + DaysInYear(y - 1)
    ELSE DaysBeforeYear(y + 1) - DaysInYear(y)

\* the days of the year before the first of month m
DaysBeforeMonth(y, m) ==
    <<0, 31, 59, 90, 120, 151, 181, 212, 243, 273, 304, 334, 365>>[m]
      + (IF m > 2 /\ IsLeapYear(y) THEN 1 ELSE 0)

\* new Date(year, month, date) plus a time of day.  A month outside 1..12
\* and a date outside the month carry over into the neighbouring years and
\* months, as the Date constructor and setters do.
MakeDate(y, m, d, minute) ==
    LET yy == y + ((m - 1) \div 12)
        mm == ((m - 1) % 12) + 1
    IN (DaysBeforeYear(yy) + DaysBeforeMonth(yy, mm) + d - 1) * MinutesPerDay + minute

\* the year a day falls in and the day's place in that year, searched from
\* year y, whose first day is day 0
RECURSIVE YearAndDay(_, _)
YearAndDay(day, y) ==
    IF day < 0 THEN YearAndDay(day + DaysInYear(y - 1), y - 1)
    ELSE IF day >= DaysInYear(y) THEN YearAndDay(day - DaysInYear(y), y + 1)
    ELSE <<y, day>>

\* getFullYear(), getMonth() + 1, getDate() and the minute of a Date
Fields(t) ==
    LET yd == YearAndDay(t \div MinutesPerDay, 2023)
        m  == CHOOSE m \in 1..12 :
                 /\ DaysBeforeMonth(yd[1], m) <= yd[2]
                 /\ yd[2] < DaysBeforeMonth(yd[1], m + 1)
    IN [year |-> yd[1], month |-> m,
        date |-> yd[2] - DaysBeforeMonth(yd[1], m) + 1,
        minute |-> t % MinutesPerDay]

GetFullYear(t) == Fields(t).year

GetMonth(t) == Fields(t).month

GetDate(t) == Fields(t).date

MinuteOfDay(t) == Fields(t).minute

\* date.setDate(date.getDate() + days), date.setMonth(date.getMonth() +
\* months), date.setFullYear(date.getFullYear() + years)
AddDays(t, days) ==
    LET f == Fields(t) IN MakeDate(f.year, f.month, f.date + days, f.minute)

AddMonths(t, months) ==
    LET f == Fields(t) IN MakeDate(f.year, f.month + months, f.date, f.minute)

AddYears(t, years) ==
    LET f == Fields(t) IN MakeDate(f.year + years, f.month, f.date, f.minute)

\* new Date(now.getFullYear(), now.getMonth(), now.getDate())
StartOfDay(t) ==
    LET f == Fields(t) IN MakeDate(f.year, f.month, f.date, 0)

\* the clock reading when the session starts: 31 March 2024, 12:00
SessionStart == MakeDate(2024, 3, 31, 12 * 60)

----------------------------------------------------------------------------
\* the cross-border transfer before a recipient is entered
NoResolution == [status |-> "none", address |-> "", name |-> ""]

\* history of the cross-border transfer: the last call, what it was given
\* and what it returned
NoTransfer == [op |-> "none", tagOrPhone |-> "", result |-> "none"]

----------------------------------------------------------------------------
\* history of the transaction history screen: the last handler step, the
\* toast it showed and the file it handed to the browser
NoHist == [op |-> "none", toast |-> NoToast, file |-> <<>>]

----------------------------------------------------------------------------
Init ==
    /\ activeTab = "create"
    /\ escrows = <<>>
    /\ createdAt = <<>>
    /\ wallets = InitWallets
    /\ transactions = <<>>
    /\ pendingOnChain = <<>>
    /\ now = 0
    /\ lastOp = NoOp
    /\ prices = FullPrices
    /\ isLoading = FALSE
    /\ swapMounted = FALSE
    /\ fromAsset = NoAsset
    /\ toAsset = NoAsset
    /\ swapAmount = <<>>
    /\ showAssetModal = "none"
    /\ useMesh = FALSE
    /\ pendingSwaps = 0
    /\ lastSwap = NoSwap
    /\ searchQuery = ""
    /\ typeFilter = "all"
    /\ dateFilter = "all"
    /\ showFilters = FALSE
    /\ showExportMenu = FALSE
    /\ pendingExports = 0
    /\ lastHist = NoHist
    /\ clock = SessionStart
    /\ resolution = NoResolution
    /\ lastTransfer = NoTransfer

\* the clock advances between handler steps
Tick(t) ==
    /\ t > now
    /\ now' = t
    /\ UNCHANGED <<activeTab, escrows, createdAt, wallets, transactions,
                   pendingOnChain, lastOp>>
    /\ UNCHANGED swapVars
    /\ UNCHANGED historyVars
    /\ UNCHANGED transferVars

\* the Create / Active tab buttons (lines 323-334)
SetActiveTab(tab) ==
    /\ activeTab # tab
    /\ activeTab' = tab
    /\ UNCHANGED <<escrows, createdAt, wallets, transactions, pendingOnChain,
                   now, lastOp>>
    /\ UNCHANGED swapVars
    /\ UNCHANGED historyVars
    /\ UNCHANGED transferVars

\* handleCreateEscrow up to its await (lines 266-286): the local createEscrow,
\* whose result the handler does not look at, then the contact lookup and
\* the createEscrowOnChain call
HandleCreateEscrow(amount, currency, recipient) ==
    LET newId == NewId(now)
        entry == NewEscrowEntry(newId, amount, currency, recipient)
        res   == createEscrowResult(wallets, entry)
        reg   == createEscrowRegistry(escrows, wallets, entry)
    IN
    /\ Len(escrows) < MaxEscrows
    /\ Len(pendingOnChain) < MaxInflight
    /\ escrows' = reg
    /\ createdAt' = IF res = "ok" THEN Append(createdAt, now) ELSE createdAt
    /\ wallets' = createEscrowWallets(wallets, entry)
    /\ pendingOnChain' = Append(pendingOnChain,
                                [to |-> RecipientAddress(recipient),
                                 amount |-> amount, id |-> newId,
                                 local |-> res])
    /\ lastOp' = OpRecord("create",
                          IF res = "ok" THEN Len(reg) ELSE 0,
                          res, NoToast, TRUE, FALSE)
    /\ UNCHANGED <<activeTab, transactions, now>>
    /\ UNCHANGED swapVars
    /\ UNCHANGED historyVars
    /\ UNCHANGED transferVars

\* handleCreateEscrow after its await (lines 287-292): the call resolved or
\* rejected; a rejection is caught and logged with console.warn; then the tab
\* switches and the success toast is shown
SettleOnChain_rollback(k, outcome) ==
    /\ k \in 1..Len(pendingOnChain)
    /\ pendingOnChain' = [i \in 1..(Len(pendingOnChain) - 1) |->
                            IF i < k THEN pendingOnChain[i] ELSE pendingOnChain[i + 1]]
    /\ activeTab' = "active"
    /\ lastOp' = OpRecord("settle",
                          FindEscrow(escrows, pendingOnChain[k].id), outcome,
                          [msg |-> "Escrow Created Successfully", kind |-> "success"],
                          FALSE, outcome = "rejected")
    /\ IF outcome = "rejected" /\ FindEscrow(escrows, pendingOnChain[k].id) # 0
       THEN LET i == FindEscrow(escrows, pendingOnChain[k].id) IN
            /\ escrows' = [escrows EXCEPT ![i].status = "refunded"]
            /\ wallets' = [wallets EXCEPT ![CurrencyOf(escrows[i])] = @ + AmountOf(escrows[i])]
       ELSE UNCHANGED <<escrows, wallets>>
    /\ UNCHANGED <<createdAt, transactions, now>>
    /\ UNCHANGED swapVars
    /\ UNCHANGED historyVars
    /\ UNCHANGED transferVars

SettleOnChain(k, outcome) ==
    /\ k \in 1..Len(pendingOnChain)
    /\ pendingOnChain' = [i \in 1..(Len(pendingOnChain) - 1) |->
                            IF i < k THEN pendingOnChain[i] ELSE pendingOnChain[i + 1]]
    /\ activeTab' = "active"
    /\ lastOp' = OpRecord("settle",
                          FindEscrow(escrows, pendingOnChain[k].id), outcome,
                          [msg |-> "Escrow Created Successfully", kind |-> "success"],
                          FALSE, outcome = "rejected")
    /\ UNCHANGED <<escrows, createdAt, wallets, transactions, now>>
    /\ UNCHANGED swapVars
    /\ UNCHANGED historyVars
    /\ UNCHANGED transferVars

\* handleAction (lines 295-306)
HandleAction_noRelease(id, action) ==
    /\ action \in Actions
    /\ lastOp' = OpRecord(action, FindEscrow(escrows, id), "none",
                          CASE action = "sign" ->
                                 [msg |-> "Escrow Signed & Approved", kind |-> "success"]
                            [] action = "dispute" ->
                                 [msg |-> "Dispute Opened (Stubborn Mode)", kind |-> "warning"]
                            [] action = "release" ->
                                 [msg |-> "Funds Released", kind |-> "success"],
                          FALSE, FALSE)
    /\ UNCHANGED <<activeTab, escrows, createdAt, wallets, transactions,
                   pendingOnChain, now>>
    /\ UNCHANGED swapVars
    /\ UNCHANGED historyVars
    /\ UNCHANGED transferVars

HandleAction(id, action) ==
    \/ /\ action = "sign"
       /\ lastOp' = OpRecord("sign", FindEscrow(escrows, id), "none",
                             [msg |-> "Escrow Signed & Approved", kind |-> "success"],
                             FALSE, FALSE)
       /\ UNCHANGED <<activeTab, escrows, createdAt, wallets, transactions,
                      pendingOnChain, now>>
       /\ UNCHANGED swapVars
       /\ UNCHANGED historyVars
       /\ UNCHANGED transferVars
    \/ /\ action = "dispute"
       /\ lastOp' = OpRecord("dispute", FindEscrow(escrows, id), "none",
                             [msg |-> "Dispute Opened (Stubborn Mode)", kind |-> "warning"],
                             FALSE, FALSE)
       /\ UNCHANGED <<activeTab, escrows, createdAt, wallets, transactions,
                      pendingOnChain, now>>
       /\ UNCHANGED swapVars
       /\ UNCHANGED historyVars
       /\ UNCHANGED transferVars
    \/ /\ action = "release"
       /\ escrows' = releaseEscrowRegistry(escrows, id)
       /\ transactions' = releaseEscrowLog(transactions, escrows, id)
       /\ lastOp' = OpRecord("release", FindEscrow(escrows, id),
                             releaseEscrowResult(escrows, id),
                             [msg |-> "Funds Released", kind |-> "success"],
                             FALSE, FALSE)
       /\ UNCHANGED <<activeTab, createdAt, wallets, pendingOnChain, now>>
       /\ UNCHANGED swapVars
       /\ UNCHANGED historyVars
       /\ UNCHANGED transferVars

\* the ids a caller of handleAction can name
CallableIds == {escrows[i].id : i \in 1..Len(escrows)} \cup {UnknownId}

\* onClick={handleCreateEscrow} of the Initialize Escrow button (lines 400-405)
ClickCreate(amount, currency, recipient) ==
    /\ CreateButtonShown
    /\ HandleCreateEscrow(amount, currency, recipient)

\* onClick={() => handleAction(escrow.id, ...)} of an entry's Sign, Stubborn
\* and Release Funds buttons (lines 436-457)
ClickAction(id, action) ==
    /\ ActionButtonsShown(id)
    /\ HandleAction(id, action)

Next ==
    \/ \E t \in Times : Tick(t)
    \/ \E tab \in {"create", "active"} : SetActiveTab(tab)
    \/ \E a \in Amounts, c \in Currencies, r \in Recipients : ClickCreate(a, c, r)
    \/ \E k \in 1..MaxInflight, o \in {"resolved", "rejected"} : SettleOnChain(k, o)
    \/ \E id \in CallableIds, action \in Actions : ClickAction(id, action)

Spec == Init /\ [][Next]_vars

\* handleAction called with any id and action
NextCalls ==
    \/ \E t \in Times : Tick(t)
    \/ \E tab \in {"create", "active"} : SetActiveTab(tab)
    \/ \E a \in Amounts, c \in Currencies, r \in Recipients : ClickCreate(a, c, r)
    \/ \E k \in 1..MaxInflight, o \in {"resolved", "rejected"} : SettleOnChain(k, o)
    \/ \E id \in CallableIds, action \in Actions : HandleAction(id, action)

SpecCalls == Init /\ [][NextCalls]_vars

----------------------------------------------------------------------------
(* The swap screen *)

InitSwap ==
    /\ activeTab = "create"
    /\ escrows = <<>>
    /\ createdAt = <<>>
    /\ wallets = InitSwapWallets
    /\ transactions = <<>>
    /\ pendingOnChain = <<>>
    /\ now = 0
    /\ lastOp = NoOp
    /\ prices = FullPrices
    /\ isLoading = FALSE
    /\ swapMounted = FALSE
    /\ fromAsset = NoAsset
    /\ toAsset = NoAsset
    /\ swapAmount = <<>>
    /\ showAssetModal = "none"
    /\ useMesh = FALSE
    /\ pendingSwaps = 0
    /\ lastSwap = NoSwap
    /\ searchQuery = ""
    /\ typeFilter = "all"
    /\ dateFilter = "all"
    /\ showFilters = FALSE
    /\ showExportMenu = FALSE
    /\ pendingExports = 0
    /\ lastHist = NoHist
    /\ clock = SessionStart
    /\ resolution = NoResolution
    /\ lastTransfer = NoTransfer

\* the screen is shown: its state is initialised (lines 14-17, 52-53)
MountSwap ==
    /\ ~swapMounted
    /\ swapMounted' = TRUE
    /\ fromAsset' = AssetSnapshot(wallets, WalletOrder[1])
    /\ toAsset' = AssetSnapshot(wallets, WalletOrder[2])
    /\ swapAmount' = <<>>
    /\ showAssetModal' = "none"
    /\ useMesh' = FALSE
    /\ UNCHANGED <<wallets, transactions, prices, isLoading, pendingSwaps, lastSwap>>
    /\ UNCHANGED escrowVars
    /\ UNCHANGED historyVars
    /\ UNCHANGED transferVars

\* the selection modal covers the screen while it is open (lines 190-191)
MainShown == swapMounted /\ showAssetModal = "none"

\* the screen is left: its state is discarded
Unmount ==
    /\ swapMounted' = FALSE
    /\ fromAsset' = NoAsset
    /\ toAsset' = NoAsset
    /\ swapAmount' = <<>>
    /\ showAssetModal' = "none"
    /\ useMesh' = FALSE

\* onClick={onBack} of the header (line 65)
Back ==
    /\ MainShown
    /\ Unmount
    /\ UNCHANGED <<wallets, transactions, prices, isLoading, pendingSwaps, lastSwap>>
    /\ UNCHANGED escrowVars
    /\ UNCHANGED historyVars
    /\ UNCHANGED transferVars

\* onChange={(e) => setAmount(e.target.value)} (line 86)
SetAmount(text) ==
    /\ MainShown
    /\ swapAmount # text
    /\ swapAmount' = text
    /\ UNCHANGED <<wallets, transactions, prices, isLoading, swapMounted,
                   fromAsset, toAsset, showAssetModal, useMesh, pendingSwaps,
                   lastSwap>>
    /\ UNCHANGED escrowVars
    /\ UNCHANGED historyVars
    /\ UNCHANGED transferVars

\* switchAssets (lines 46-50)
SwitchAssets ==
    /\ MainShown
    /\ fromAsset' = toAsset
    /\ toAsset' = fromAsset
    /\ UNCHANGED <<wallets, transactions, prices, isLoading, swapMounted,
                   swapAmount, showAssetModal, useMesh, pendingSwaps, lastSwap>>
    /\ UNCHANGED escrowVars
    /\ UNCHANGED historyVars
    /\ UNCHANGED transferVars

\* onClick={() => setShowAssetModal('from' | 'to')} (lines 91, 122) and the
\* modal's close button (line 195)
SetShowAssetModal(which) ==
    /\ swapMounted
    /\ \/ showAssetModal = "none" /\ which \in {"from", "to"}
       \/ showAssetModal # "none" /\ which = "none"
    /\ showAssetModal' = which
    /\ UNCHANGED <<wallets, transactions, prices, isLoading, swapMounted,
                   fromAsset, toAsset, swapAmount, useMesh, pendingSwaps, lastSwap>>
    /\ UNCHANGED escrowVars
    /\ UNCHANGED historyVars
    /\ UNCHANGED transferVars

\* an asset of the modal's list is chosen (lines 200-208)
SelectAsset(symbol) ==
    /\ swapMounted
    /\ showAssetModal # "none"
    /\ symbol \in AssetsList(prices)
    /\ IF showAssetModal = "from"
       THEN fromAsset' = AssetSnapshot(wallets, symbol) /\ toAsset' = toAsset
       ELSE toAsset' = AssetSnapshot(wallets, symbol) /\ fromAsset' = fromAsset
    /\ showAssetModal' = "none"
    /\ UNCHANGED <<wallets, transactions, prices, isLoading, swapMounted,
                   swapAmount, useMesh, pendingSwaps, lastSwap>>
    /\ UNCHANGED escrowVars
    /\ UNCHANGED historyVars
    /\ UNCHANGED transferVars

\* onClick={() => setUseMesh(!useMesh)} (line 137)
ToggleMesh ==
    /\ MainShown
    /\ useMesh' = ~useMesh
    /\ UNCHANGED <<wallets, transactions, prices, isLoading, swapMounted,
                   fromAsset, toAsset, swapAmount, showAssetModal, pendingSwaps,
                   lastSwap>>
    /\ UNCHANGED escrowVars
    /\ UNCHANGED historyVars
    /\ UNCHANGED transferVars

\* 4.2 refresh(entries): replaces the entries wholesale (design document)
refreshPrices(entries) ==
    /\ prices # entries
    /\ prices' = entries
    /\ UNCHANGED <<wallets, transactions, isLoading, swapMounted, fromAsset,
                   toAsset, swapAmount, showAssetModal, useMesh, pendingSwaps,
                   lastSwap>>
    /\ UNCHANGED escrowVars
    /\ UNCHANGED historyVars
    /\ UNCHANGED transferVars

\* handleSwap up to its await (lines 30-41).  compared: the balance the
\* amount is compared with; passed: the amount handed to swapAssets.
\* swapAssets commits the swap in the ledger and the log and keeps isLoading
\* set until it resolves.
HandleSwapBody(compared, passed) ==
    /\ Len(transactions) < 2 * MaxSwaps
    /\ IF swapAmount = <<>> \/ ParseFloat(swapAmount) <= 0
       THEN /\ lastSwap' = SwapRecord(FALSE, "none",
                              [msg |-> "Please enter a valid amount", kind |-> "error"])
            /\ UNCHANGED <<wallets, transactions, isLoading, pendingSwaps>>
       ELSE IF ParseFloat(swapAmount) > compared
       THEN /\ lastSwap' = SwapRecord(FALSE, "none",
                              [msg |-> "Insufficient balance", kind |-> "error"])
            /\ UNCHANGED <<wallets, transactions, isLoading, pendingSwaps>>
       ELSE /\ wallets' = executeSwapWallets(wallets, prices, fromAsset.symbol,
                                             toAsset.symbol, passed)
            /\ transactions' = executeSwapLog(transactions, wallets, prices,
                                              fromAsset.symbol, toAsset.symbol,
                                              passed)
            /\ isLoading' = TRUE
            /\ pendingSwaps' = pendingSwaps + 1
            /\ lastSwap' = SwapRecord(TRUE,
                              executeSwapResult(wallets, fromAsset.symbol, passed),
                              NoToast)
    /\ UNCHANGED <<prices, swapMounted, fromAsset, toAsset, swapAmount,
                   showAssetModal, useMesh>>
    /\ UNCHANGED escrowVars
    /\ UNCHANGED historyVars
    /\ UNCHANGED transferVars

\* the balance check of line 36 left out
HandleSwap_noBalanceCheck ==
    HandleSwapBody(ParseFloat(swapAmount), ParseFloat(swapAmount))

\* parseInt in place of parseFloat at line 41
HandleSwap_parseInt ==
    HandleSwapBody(fromAsset.balance, (ParseFloat(swapAmount) \div Micro) * Micro)

\* a one per cent fee taken when routing via the mesh
HandleSwap_meshFee ==
    HandleSwapBody(fromAsset.balance,
                   IF useMesh
                   THEN ParseFloat(swapAmount) - ParseFloat(swapAmount) \div 100
                   ELSE ParseFloat(swapAmount))

HandleSwap ==
    HandleSwapBody(fromAsset.balance, ParseFloat(swapAmount))

\* handleSwap after its await (lines 42-43): setAmount('') and onBack()
SwapResolved ==
    /\ pendingSwaps > 0
    /\ pendingSwaps' = pendingSwaps - 1
    /\ isLoading' = FALSE
    /\ Unmount
    /\ UNCHANGED <<wallets, transactions, prices, lastSwap>>
    /\ UNCHANGED escrowVars
    /\ UNCHANGED historyVars
    /\ UNCHANGED transferVars

\* the Confirm Swap button: disabled={isLoading || !amount} (lines 170-172)
SwapButtonEnabled == MainShown /\ ~isLoading /\ swapAmount # <<>>

\* the button left enabled while a swap is in progress
ClickSwap_noLoadingGuard ==
    /\ MainShown
    /\ swapAmount # <<>>
    /\ pendingSwaps < 2
    /\ HandleSwap

ClickSwap ==
    /\ SwapButtonEnabled
    /\ HandleSwap

\* the amount texts a user can type: the fixed ones and the amount the last
\* swap credited
TypedTexts == AmountTexts \cup (IF lastSwap.credited > 0 THEN {<<lastSwap.credited>>} ELSE {})

\* the swap screen under one price snapshot
NextSwap ==
    \/ MountSwap
    \/ Back
    \/ \E text \in TypedTexts : SetAmount(text)
    \/ SwitchAssets
    \/ \E which \in {"from", "to", "none"} : SetShowAssetModal(which)
    \/ \E symbol \in Assets : SelectAsset(symbol)
    \/ ToggleMesh
    \/ ClickSwap
    \/ SwapResolved

SpecSwap == InitSwap /\ [][NextSwap]_vars

\* the swap screen while the price cache is refreshed
NextPrices ==
    \/ MountSwap
    \/ Back
    \/ \E text \in TypedTexts : SetAmount(text)
    \/ SwitchAssets
    \/ \E which \in {"from", "to", "none"} : SetShowAssetModal(which)
    \/ \E symbol \in Assets : SelectAsset(symbol)
    \/ ToggleMesh
    \/ \E entries \in PriceSnapshots : refreshPrices(entries)
    \/ ClickSwap
    \/ SwapResolved

SpecPrices == InitSwap /\ [][NextPrices]_vars

----------------------------------------------------------------------------
(* Transaction history screen (src/unnamed/part_001) *)

MaxLog == 3

FilterTypes == {"all", "sent", "received"}

DateFilters == {"all", "today", "week", "month", "year"}

\* the texts typed into the search box
SearchQueries == {"", "jane"}

(* Stored texts.  A date text is a relative marker ('Today', 'Yesterday'), *)
(* a count of days (`${n} ${unit} ago`), an ISO date or another word; an   *)
(* amount text is its groups of digits, the commas between them left out   *)
(* ('1,250' is <<1, 250>>).                                                *)

Word(w) == [kind |-> "word", word |-> w, n |-> 0, y |-> 0, m |-> 0, d |-> 0]

Ago(n, unit) == [kind |-> "ago", word |-> unit, n |-> n, y |-> 0, m |-> 0, d |-> 0]

Iso(y, m, d) == [kind |-> "iso", word |-> "", n |-> 0, y |-> y, m |-> m, d |-> d]

\* the transfers the wallet context records
LogEntries ==
    {[type |-> "sent", amount |-> <<100>>, currency |-> "USD",
      recipient |-> "Jane Cooper", date |-> Word("Today")],
     [type |-> "received", amount |-> <<50>>, currency |-> "SUI",
      recipient |-> "Bob", date |-> Ago(3, "days")]}

\* str.toLowerCase()
ToLowerCase(str) ==
    CASE str = "Today" -> "today"
      [] str = "Yesterday" -> "yesterday"
      [] str = "Pending" -> "pending"
      [] str = "Jane Cooper" -> "jane cooper"
      [] str = "Bob" -> "bob"
      [] str = "USD" -> "usd"
      [] str = "SUI" -> "sui"
      [] str = "USDC" -> "usdc"
      [] OTHER -> str

\* lower.includes(needle) of a lowercased word or name
Includes(lower, needle) ==
    \/ needle = ""
    \/ lower = needle
    \/ lower = "jane cooper" /\ needle \in {"jane", "cooper"}

\* lower.includes(needle) of a lowercased date text: a count of days holds
\* 'days ago' when its unit is the plural, and holds no other needle
DateIncludes(date, needle) ==
    CASE date.kind = "word" -> Includes(ToLowerCase(date.word), needle)
      [] date.kind = "ago" -> needle = "days ago" /\ date.word = "days"
      [] OTHER -> FALSE

\* lower.match(/(\d+)\s*days?\s*ago/): the digits matched, none if no match
DaysMatch(date) ==
    IF date.kind = "ago" /\ date.word \in {"day", "days"} THEN <<date.n>> ELSE <<>>

\* new Date(dateStr): an ISO date is midnight of that day, every other text
\* of the model is an invalid date; getTime() of an invalid date is NaN
NewDate(date) ==
    IF date.kind = "iso"
    THEN [nan |-> FALSE, time |-> MakeDate(date.y, date.m, date.d, 0)]
    ELSE [nan |-> TRUE, time |-> 0]

\* parseDate (lines 28-51); currentTime: its new Date()
parseDate(dateStr, currentTime) ==
    IF DateIncludes(dateStr, "today") THEN currentTime
    ELSE IF DateIncludes(dateStr, "yesterday")
    THEN AddDays(currentTime, 0 - 1)
    ELSE IF DateIncludes(dateStr, "days ago") /\ DaysMatch(dateStr) # <<>>
    THEN AddDays(currentTime, 0 - DaysMatch(dateStr)[1])
    ELSE IF NewDate(dateStr).nan THEN currentTime ELSE NewDate(dateStr).time

\* the search box (lines 58-66): recipient, amount, currency or id holds the
\* lowercased query.  The queries of the model are letters only, which no
\* amount and no id holds.
SearchFilter(list, query) ==
    IF query # ""
    THEN SelectSeq(list, LAMBDA tx :
            \/ Includes(ToLowerCase(tx.recipient), ToLowerCase(query))
            \/ Includes(ToLowerCase(tx.currency), ToLowerCase(query)))
    ELSE list

\* the type filter (lines 69-71)
TypeFilter_ignored(list, type) == list

TypeFilter(list, type) ==
    IF type # "all" THEN SelectSeq(list, LAMBDA tx : tx.type = type) ELSE list

\* the start of a date window (lines 75-76, 83-99), for a key other than all
DateWindowStart_calendar(key, currentTime) ==
    CASE key = "today" -> StartOfDay(currentTime)
      [] key = "week" -> AddDays(currentTime, 0 - 7)
      [] key = "month" ->
           MakeDate(GetFullYear(currentTime), GetMonth(currentTime), 1, 0)
      [] key = "year" -> AddYears(currentTime, 0 - 1)

DateWindowStart(key, currentTime) ==
    CASE key = "today" -> StartOfDay(currentTime)
      [] key = "week" -> AddDays(currentTime, 0 - 7)
      [] key = "month" -> AddMonths(currentTime, 0 - 1)
      [] key = "year" -> AddYears(currentTime, 0 - 1)

\* the date filter (lines 74-103)
DateRangeFilter(list, key, currentTime) ==
    IF key # "all"
    THEN LET start == DateWindowStart(key, currentTime) IN
         SelectSeq(list, LAMBDA tx : parseDate(tx.date, currentTime) >= start)
    ELSE list

\* filteredTransactions (lines 54-106) of a log under given filters
Query(log, query, type, key, currentTime) ==
    DateRangeFilter(TypeFilter(SearchFilter(log, query), type), key, currentTime)

filteredTransactions ==
    Query(transactions, searchQuery, typeFilter, dateFilter, clock)

\* parseFloat(tx.amount.replace(/,/g, ''))  (lines 114, 120)
RECURSIVE ParseAmount(_)
ParseAmount(groups) ==
    IF groups = <<>> THEN 0
    ELSE ParseAmount(SubSeq(groups, 1, Len(groups) - 1)) * 1000 + groups[Len(groups)]

\* sums and differences of fiat values, kept as fractions
FracAdd(a, b) == <<a[1] * b[2] + b[1] * a[2], a[2] * b[2]>>

FracSub(a, b) == <<a[1] * b[2] - b[1] * a[2], a[2] * b[2]>>

FracEq(a, b) == a[1] * b[2] = b[1] * a[2]

\* list.reduce((acc, tx) => acc + amount * (prices[tx.currency] || 1), 0)
RECURSIVE FiatTotal_noPrice(_, _)
FiatTotal_noPrice(list, p) ==
    IF list = <<>> THEN <<0, 1>>
    ELSE FracAdd(FiatTotal_noPrice(SubSeq(list, 1, Len(list) - 1), p),
                 <<ParseAmount(list[Len(list)].amount), 1>>)

RECURSIVE FiatTotal(_, _)
FiatTotal(list, p) ==
    IF list = <<>> THEN <<0, 1>>
    ELSE FracAdd(FiatTotal(SubSeq(list, 1, Len(list) - 1), p),
                 <<ParseAmount(list[Len(list)].amount)
                     * GetRate(p, list[Len(list)].currency)[1],
                   GetRate(p, list[Len(list)].currency)[2]>>)

\* stats (lines 109-133)
stats(filtered, p) ==
    LET sent     == SelectSeq(filtered, LAMBDA tx : tx.type = "sent")
        received == SelectSeq(filtered, LAMBDA tx : tx.type = "received")
    IN [totalTransactions |-> Len(filtered),
        sentCount |-> Len(sent),
        receivedCount |-> Len(received),
        totalSent |-> FiatTotal(sent, p),
        totalReceived |-> FiatTotal(received, p),
        netFlow |-> FracSub(FiatTotal(received, p), FiatTotal(sent, p))]

\* cells.join(sep): the cells with the separator between them
RECURSIVE Join(_, _)
Join(cells, sep) ==
    IF Len(cells) <= 1 THEN cells
    ELSE Join(SubSeq(cells, 1, Len(cells) - 1), sep) \o <<sep, cells[Len(cells)]>>

\* `"${cell}"`: the cell between two double quotes, as one piece of text
Quoted(cell) == [open |-> "\"", text |-> cell, close |-> "\""]

\* csvContent (lines 137-152): the header line, then one line per row; the
\* lines joined by '\n' are kept as the sequence of lines
CsvHeaders == <<"ID", "Type", "Amount", "Currency", "Recipient", "Date">>

CsvRow(tx) == <<tx.id, tx.type, tx.amount, tx.currency, tx.recipient, tx.date>>

\* the rows in the reverse of the filtered order
CsvContent_reversed(filtered) ==
    <<Join(CsvHeaders, ",")>>
      \o [i \in 1..Len(filtered) |->
            Join([k \in 1..Len(CsvRow(filtered[i])) |->
                    Quoted(CsvRow(filtered[Len(filtered) + 1 - i])[k])],
                 ",")]

CsvContent(filtered) ==
    <<Join(CsvHeaders, ",")>>
      \o [i \in 1..Len(filtered) |->
            Join([k \in 1..Len(CsvRow(filtered[i])) |-> Quoted(CsvRow(filtered[i])[k])],
                 ",")]

InitHistory ==
    /\ activeTab = "create"
    /\ escrows = <<>>
    /\ createdAt = <<>>
    /\ wallets = InitWallets
    /\ transactions = <<>>
    /\ pendingOnChain = <<>>
    /\ now = 0
    /\ lastOp = NoOp
    /\ prices = FullPrices
    /\ isLoading = FALSE
    /\ swapMounted = FALSE
    /\ fromAsset = NoAsset
    /\ toAsset = NoAsset
    /\ swapAmount = <<>>
    /\ showAssetModal = "none"
    /\ useMesh = FALSE
    /\ pendingSwaps = 0
    /\ lastSwap = NoSwap
    /\ searchQuery = ""
    /\ typeFilter = "all"
    /\ dateFilter = "all"
    /\ showFilters = FALSE
    /\ showExportMenu = FALSE
    /\ pendingExports = 0
    /\ lastHist = NoHist
    /\ clock = SessionStart
    /\ resolution = NoResolution
    /\ lastTransfer = NoTransfer

\* what every step of the history screen leaves alone
HistoryFrame ==
    /\ UNCHANGED <<wallets, transactions>>
    /\ UNCHANGED escrowVars
    /\ UNCHANGED swapVars
    /\ UNCHANGED transferVars

\* 4.3 append: stores the entry under an id no other entry carries (design
\* document)
appendTransaction(entry) ==
    /\ Len(transactions) < MaxLog
    /\ transactions' = Append(transactions,
                              [id |-> Len(transactions) + 1, type |-> entry.type,
                               amount |-> entry.amount, currency |-> entry.currency,
                               recipient |-> entry.recipient, date |-> entry.date,
                               escrowId |-> UnknownId])
    /\ UNCHANGED wallets
    /\ UNCHANGED escrowVars
    /\ UNCHANGED swapVars
    /\ UNCHANGED historyVars
    /\ UNCHANGED transferVars

\* onChange={(e) => setSearchQuery(e.target.value)} (line 281)
SetSearchQuery(query) ==
    /\ searchQuery # query
    /\ searchQuery' = query
    /\ UNCHANGED <<typeFilter, dateFilter, showFilters, showExportMenu,
                   pendingExports, lastHist,
                   clock>>
    /\ HistoryFrame

\* onClick={() => setShowFilters(!showFilters)} (line 285)
ToggleFilters ==
    /\ showFilters' = ~showFilters
    /\ UNCHANGED <<searchQuery, typeFilter, dateFilter, showExportMenu,
                   pendingExports, lastHist,
                   clock>>
    /\ HistoryFrame

\* onClick={() => setTypeFilter(type)} of the filter panel (line 311).  The
\* list is filtered from a copy of the log: let filtered = [...transactions]
\* (lines 54-56).
SetTypeFilter_inPlace(type) ==
    /\ showFilters
    /\ typeFilter' = type
    /\ transactions' = SelectSeq(transactions, LAMBDA tx : type = "all" \/ tx.type = type)
    /\ UNCHANGED <<searchQuery, dateFilter, showFilters, showExportMenu,
                   pendingExports, lastHist,
                   clock>>
    /\ UNCHANGED wallets
    /\ UNCHANGED escrowVars
    /\ UNCHANGED swapVars
    /\ UNCHANGED transferVars

SetTypeFilter(type) ==
    /\ showFilters
    /\ typeFilter' = type
    /\ UNCHANGED <<searchQuery, dateFilter, showFilters, showExportMenu,
                   pendingExports, lastHist,
                   clock>>
    /\ HistoryFrame

\* onClick={() => setDateFilter(key)} of the filter panel (line 339)
SetDateFilter(key) ==
    /\ showFilters
    /\ dateFilter' = key
    /\ UNCHANGED <<searchQuery, typeFilter, showFilters, showExportMenu,
                   pendingExports, lastHist,
                   clock>>
    /\ HistoryFrame

\* clearFilters (lines 199-204)
ClearFilters ==
    /\ searchQuery' = ""
    /\ typeFilter' = "all"
    /\ dateFilter' = "all"
    /\ lastHist' = [op |-> "clear", file |-> <<>>,
                    toast |-> [msg |-> "Filters cleared", kind |-> "info"]]
    /\ UNCHANGED <<showFilters, showExportMenu, pendingExports,
                   clock>>
    /\ HistoryFrame

\* onClick={() => setShowExportMenu(!showExportMenu)} (line 236)
ToggleExportMenu ==
    /\ showExportMenu' = ~showExportMenu
    /\ UNCHANGED <<searchQuery, typeFilter, dateFilter, showFilters,
                   pendingExports, lastHist,
                   clock>>
    /\ HistoryFrame

\* exportToCSV (lines 136-164), from the export menu (line 253): the file is
\* built from filteredTransactions and handed to the browser, then the
\* success toast is shown and the menu closed
ExportToCSV ==
    /\ showExportMenu
    /\ \E filtered \in {filteredTransactions} :
         lastHist' = [op |-> "csv", file |-> CsvContent(filtered),
                      toast |-> [msg |-> "Transactions exported to CSV",
                                 kind |-> "success"]]
    /\ showExportMenu' = FALSE
    /\ UNCHANGED <<searchQuery, typeFilter, dateFilter, showFilters, pendingExports,
                   clock>>
    /\ HistoryFrame

\* exportToPDF up to its first await (lines 166-168), from the export menu
\* (line 261)
ExportToPDF ==
    /\ showExportMenu
    /\ pendingExports < MaxInflight
    /\ pendingExports' = pendingExports + 1
    /\ UNCHANGED <<searchQuery, typeFilter, dateFilter, showFilters,
                   showExportMenu, lastHist,
                   clock>>
    /\ HistoryFrame

\* exportToPDF after its awaits (lines 170-196).  outcome: the list element
\* is missing, the image was rendered, or html2canvas rejected
ExportToPDFDone(outcome) ==
    /\ pendingExports > 0
    /\ pendingExports' = pendingExports - 1
    /\ lastHist' = [op |-> "pdf", file |-> <<>>,
                    toast |-> CASE outcome = "noElement" ->
                                     [msg |-> "Failed to generate PDF", kind |-> "error"]
                                [] outcome = "rendered" ->
                                     [msg |-> "Transactions exported as image", kind |-> "success"]
                                [] outcome = "rejected" ->
                                     [msg |-> "Export failed", kind |-> "error"]]
    /\ showExportMenu' = (IF outcome = "noElement" THEN showExportMenu ELSE FALSE)
    /\ UNCHANGED <<searchQuery, typeFilter, dateFilter, showFilters,
                   clock>>
    /\ HistoryFrame

NextHistory ==
    \/ \E entry \in LogEntries : appendTransaction(entry)
    \/ \E query \in SearchQueries : SetSearchQuery(query)
    \/ ToggleFilters
    \/ \E type \in FilterTypes : SetTypeFilter(type)
    \/ \E key \in DateFilters : SetDateFilter(key)
    \/ ClearFilters
    \/ ToggleExportMenu
    \/ ExportToCSV
    \/ ExportToPDF
    \/ \E outcome \in {"noElement", "rendered", "rejected"} : ExportToPDFDone(outcome)

SpecHistory == InitHistory /\ [][NextHistory]_vars

----------------------------------------------------------------------------
(* The history screen over a stored log: the queries, the aggregates and   *)
(* the date parsing, for logs whose dates come in every form, read at      *)
(* several clock readings.                                                 *)

MaxQueryLog == 2

\* stored transfers whose dates are 'Today', 'Yesterday', '1 day ago',
\* '40 days ago', '400 days ago', '2024-03-15' and 'Pending'
QueryEntries ==
    {[type |-> "sent", amount |-> <<100>>, currency |-> "USD",
      recipient |-> "Jane Cooper", date |-> Word("Today")],
     [type |-> "received", amount |-> <<50>>, currency |-> "SUI",
      recipient |-> "Bob", date |-> Word("Yesterday")],
     [type |-> "received", amount |-> <<20>>, currency |-> "SUI",
      recipient |-> "Jane Cooper", date |-> Ago(1, "day")],
     [type |-> "sent", amount |-> <<1, 250>>, currency |-> "USD",
      recipient |-> "Bob", date |-> Ago(40, "days")],
     [type |-> "received", amount |-> <<10>>, currency |-> "USD",
      recipient |-> "Bob", date |-> Ago(400, "days")],
     [type |-> "sent", amount |-> <<70>>, currency |-> "SUI",
      recipient |-> "Jane Cooper", date |-> Iso(2024, 3, 15)],
     [type |-> "received", amount |-> <<5>>, currency |-> "USD",
      recipient |-> "Bob", date |-> Word("Pending")]}

\* the clock readings of a query: 31 March 2024 at noon (a month earlier is
\* 31 February), 1 January 2024 at midnight (the day starts now, a month
\* earlier is in the year before) and 29 February 2024 at 09:00 (a year
\* earlier is 29 February 2023)
QueryTimes ==
    {SessionStart, MakeDate(2024, 1, 1, 0), MakeDate(2024, 2, 29, 9 * 60)}

\* a stored log: each entry under an id of its own
StoredLog(entries) ==
    [i \in 1..Len(entries) |->
        [id |-> i, type |-> entries[i].type, amount |-> entries[i].amount,
         currency |-> entries[i].currency, recipient |-> entries[i].recipient,
         date |-> entries[i].date, escrowId |-> UnknownId]]

QueryLogs ==
    UNION {{StoredLog(l) : l \in [1..n -> QueryEntries]} : n \in 0..MaxQueryLog}

\* the screen is shown over a stored log, its filter panel open
InitQuery ==
    /\ activeTab = "create"
    /\ escrows = <<>>
    /\ createdAt = <<>>
    /\ wallets = InitWallets
    /\ transactions \in QueryLogs
    /\ pendingOnChain = <<>>
    /\ now = 0
    /\ lastOp = NoOp
    /\ prices = FullPrices
    /\ isLoading = FALSE
    /\ swapMounted = FALSE
    /\ fromAsset = NoAsset
    /\ toAsset = NoAsset
    /\ swapAmount = <<>>
    /\ showAssetModal = "none"
    /\ useMesh = FALSE
    /\ pendingSwaps = 0
    /\ lastSwap = NoSwap
    /\ searchQuery = ""
    /\ typeFilter = "all"
    /\ dateFilter = "all"
    /\ showFilters = TRUE
    /\ showExportMenu = FALSE
    /\ pendingExports = 0
    /\ lastHist = NoHist
    /\ clock \in QueryTimes
    /\ resolution = NoResolution
    /\ lastTransfer = NoTransfer

NextQuery ==
    \/ \E query \in SearchQueries : SetSearchQuery(query)
    \/ \E type \in FilterTypes : SetTypeFilter(type)
    \/ \E key \in DateFilters : SetDateFilter(key)
    \/ \E entries \in PriceSnapshots : refreshPrices(entries)

SpecQuery == InitQuery /\ [][NextQuery]_vars

----------------------------------------------------------------------------
(* Cross-border transfer (design document, section 4.6).  No screen or     *)
(* handler of it is among the sources; resolve and transfer are modelled   *)
(* from the design document, over the contact directory the escrow screen  *)
(* uses.                                                                   *)

MaxTransfers == 3

\* the tags and phone numbers entered: one the directory holds, two it does not
TagsOrPhones == {"Jane Cooper", "Bob", "+2348000000000"}

\* the amounts entered
TransferAmounts == {0, 200}

\* the settlement currencies
DestCurrencies == {"NGN", "USDC"}

\* 4.6 resolve with the escrow screen's fallback to the literal string
resolve_fallback(tagOrPhone) ==
    [status |-> "ok", address |-> RecipientAddress(tagOrPhone), name |-> tagOrPhone]

\* 4.6 resolve: settlement address and display name from the directory,
\* UnresolvedRecipient if no entry matches
resolve(tagOrPhone) ==
    IF \E c \in contacts : c.name = tagOrPhone
    THEN LET c == CHOOSE c \in contacts : c.name = tagOrPhone IN
         [status |-> "ok", address |-> c.address, name |-> c.name]
    ELSE [status |-> "UnresolvedRecipient", address |-> "", name |-> ""]

\* 4.6 transfer: the preconditions of 4.5
transferResult(w, amount, sourceCurrency) ==
    IF amount <= 0 THEN "InvalidAmount" ELSE debitResult(w, sourceCurrency, amount)

\* the recipient entered is resolved; the outcome is shown
resolveRecipient(tagOrPhone) ==
    /\ resolution' = resolve(tagOrPhone)
    /\ lastTransfer' = [op |-> "resolve", tagOrPhone |-> tagOrPhone,
                        result |-> resolve(tagOrPhone).status]
    /\ UNCHANGED <<wallets, transactions>>
    /\ UNCHANGED escrowVars
    /\ UNCHANGED swapVars
    /\ UNCHANGED historyVars

\* the transfer is confirmed, which an unresolved recipient does not allow:
\* the sender is debited in the source currency and one entry, annotated
\* with the settlement address, currency and amount, is appended to the log
transferCrossBorder(amount, sourceCurrency, destCurrency) ==
    LET res == transferResult(wallets, amount, sourceCurrency) IN
    /\ resolution.status = "ok"
    /\ Len(transactions) < MaxTransfers
    /\ lastTransfer' = [op |-> "transfer", tagOrPhone |-> resolution.name,
                        result |-> res]
    /\ IF res = "ok"
       THEN /\ wallets' = debit(wallets, sourceCurrency, amount)
            /\ transactions' =
                 Append(transactions,
                        [id |-> Len(transactions) + 1, type |-> "sent",
                         amount |-> amount, currency |-> sourceCurrency,
                         recipient |-> resolution.name, date |-> "Today",
                         escrowId |-> UnknownId,
                         address |-> resolution.address,
                         settlement |-> destCurrency,
                         settled |-> quoteSwap(prices, sourceCurrency,
                                               destCurrency, amount)])
       ELSE UNCHANGED <<wallets, transactions>>
    /\ UNCHANGED resolution
    /\ UNCHANGED escrowVars
    /\ UNCHANGED swapVars
    /\ UNCHANGED historyVars

InitTransfer ==
    /\ activeTab = "create"
    /\ escrows = <<>>
    /\ createdAt = <<>>
    /\ wallets = InitWallets
    /\ transactions = <<>>
    /\ pendingOnChain = <<>>
    /\ now = 0
    /\ lastOp = NoOp
    /\ prices = FullPrices
    /\ isLoading = FALSE
    /\ swapMounted = FALSE
    /\ fromAsset = NoAsset
    /\ toAsset = NoAsset
    /\ swapAmount = <<>>
    /\ showAssetModal = "none"
    /\ useMesh = FALSE
    /\ pendingSwaps = 0
    /\ lastSwap = NoSwap
    /\ searchQuery = ""
    /\ typeFilter = "all"
    /\ dateFilter = "all"
    /\ showFilters = FALSE
    /\ showExportMenu = FALSE
    /\ pendingExports = 0
    /\ lastHist = NoHist
    /\ clock = SessionStart
    /\ resolution = NoResolution
    /\ lastTransfer = NoTransfer

NextTransfer ==
    \/ \E t \in TagsOrPhones : resolveRecipient(t)
    \/ \E a \in TransferAmounts, c \in Currencies, d \in DestCurrencies :
         transferCrossBorder(a, c, d)

SpecTransfer == InitTransfer /\ [][NextTransfer]_vars

----------------------------------------------------------------------------
(* Properties *)

\* the registry entry an id names
Target(id) == FindEscrow(escrows, id)

\* the step from the current state to the next is this handler step
ActionStep(id, action) == lastOp'.op = action /\ HandleAction(id, action)

CreateStep(amount, currency, recipient) ==
    lastOp'.op = "create" /\ HandleCreateEscrow(amount, currency, recipient)

SettleStep(k, outcome) == lastOp'.op = "settle" /\ SettleOnChain(k, outcome)

\* C1: starting from a freshly created (pending) escrow, after any sequence of
\* sign, dispute and release calls the status of every escrow is one of
\* pending, signed, disputed, released, expired; no other status is reachable.
C1_StatusesReachable ==
    \A i \in 1..Len(escrows) :
        escrows[i].status \in {"pending", "signed", "disputed", "released", "expired"}

\* one escrow has been released, and a Sign or Stubborn button has since acted
\* on another, which is still pending
C1_Witness ==
    /\ lastOp.op \in {"sign", "dispute"}
    /\ lastOp.idx # 0
    /\ escrows[lastOp.idx].status = "pending"
    /\ \E i \in 1..Len(escrows) : escrows[i].status = "released"

\* C2: every sign, dispute or release attempted on an escrow whose status is
\* released, refunded or expired fails with InvalidTransition and leaves the
\* escrow's status, every balance and the transaction log unchanged.
\* (Checked under SpecCalls: the screen renders no button for such an escrow.)
C2_TerminalRejects ==
    [][\A id \in CallableIds, a \in Actions :
        (/\ Target(id) # 0
         /\ escrows[Target(id)].status \in TerminalStatuses
         /\ ActionStep(id, a))
        => (/\ lastOp'.result = "InvalidTransition"
            /\ escrows' = escrows
            /\ wallets' = wallets
            /\ transactions' = transactions)]_vars

\* C3: when a createEscrow that succeeded is immediately followed by the
\* release of that escrow, the escrow is released, the creator's balance in the
\* escrow's currency is the balance before the create minus the amount (every
\* other balance is as before the create), and the log has gained exactly one
\* entry, of type sent, whose recipient is the escrow's recipient.
C3_CreateThenRelease ==
    [][\A id \in CallableIds :
        (/\ lastOp.op = "create"
         /\ lastOp.result = "ok"
         /\ lastOp.idx = Target(id)
         /\ ActionStep(id, "release"))
        => LET e == escrows[Target(id)] IN
           /\ escrows'[Target(id)].status = "released"
           /\ wallets' = [lastOp.balBefore EXCEPT ![CurrencyOf(e)] = @ - AmountOf(e)]
           /\ Len(transactions') = lastOp.logLenBefore + 1
           /\ transactions'[Len(transactions')].type = "sent"
           /\ transactions'[Len(transactions')].recipient = e.recipient]_vars

\* the Release Funds button has acted on the escrow that the handler step
\* before it created
C3_Witness ==
    /\ lastOp.op = "release"
    /\ lastOp.afterCreate
    /\ lastOp.result = "ok"
    /\ lastOp.idx = Len(escrows)
    /\ escrows[lastOp.idx].status = "released"
    /\ transactions # <<>>

\* C4: a successful createEscrow debits the creator by amount in currency,
\* adds exactly one registry entry, whose status is pending, and leaves the
\* transaction log unchanged.
C4_CreateEffects ==
    [][\A a \in Amounts, c \in Currencies, r \in Recipients :
        (/\ wallets[c] >= a
         /\ CreateStep(a, c, r))
        => (/\ wallets' = [wallets EXCEPT ![c] = @ - a]
            /\ Len(escrows') = Len(escrows) + 1
            /\ SubSeq(escrows', 1, Len(escrows)) = escrows
            /\ escrows'[Len(escrows')].status = "pending"
            /\ escrows'[Len(escrows')].recipient = r
            /\ transactions' = transactions)]_vars

\* the Initialize Escrow button has just created an escrow
C4_Witness ==
    /\ lastOp.op = "create"
    /\ lastOp.result = "ok"
    /\ lastOp.idx = Len(escrows)
    /\ escrows[lastOp.idx].status = "pending"

\* C5: when the creator's balance in the escrow's currency is less than the
\* amount, createEscrow fails: no registry entry is created, no balance
\* changes, and no on-chain settlement call is issued for the attempt.
C5_NoCallOnFailedDebit ==
    [][\A a \in Amounts, c \in Currencies, r \in Recipients :
        (/\ wallets[c] < a
         /\ CreateStep(a, c, r))
        => (/\ escrows' = escrows
            /\ wallets' = wallets
            /\ pendingOnChain' = pendingOnChain
            /\ ~lastOp'.issued)]_vars

\* C6: when the on-chain settlement call of a createEscrow fails, the pending
\* escrow and the creator's debit stay as committed (no rollback), and the
\* failure is logged.
C6_NoRollback ==
    [][\A k \in 1..Len(pendingOnChain) :
        SettleStep(k, "rejected")
        => (/\ escrows' = escrows
            /\ wallets' = wallets
            /\ transactions' = transactions
            /\ lastOp'.warned)]_vars

\* the settlement call of an escrow that was created and debited has failed,
\* and the escrow is still pending
C6_Witness ==
    /\ lastOp.op = "settle"
    /\ lastOp.result = "rejected"
    /\ lastOp.warned
    /\ lastOp.idx # 0
    /\ escrows[lastOp.idx].status = "pending"
    /\ wallets[CurrencyOf(escrows[lastOp.idx])]
         < InitWallets[CurrencyOf(escrows[lastOp.idx])]

\* C7: sign(id) on a pending escrow sets its status to signed and changes no
\* balance and no log entry; on an unknown id it fails with NotFound, and on an
\* escrow in any other status with InvalidTransition, changing nothing.
C7_Sign ==
    [][\A id \in CallableIds :
        ActionStep(id, "sign")
        => /\ wallets' = wallets
           /\ transactions' = transactions
           /\ IF Target(id) = 0
              THEN lastOp'.result = "NotFound" /\ escrows' = escrows
              ELSE IF escrows[Target(id)].status = "pending"
              THEN escrows' = [escrows EXCEPT ![Target(id)].status = "signed"]
              ELSE lastOp'.result = "InvalidTransition" /\ escrows' = escrows]_vars

\* C8: dispute(id) on a pending or signed escrow sets its status to disputed
\* and changes no balance and no log entry; on an unknown id it fails with
\* NotFound, and from any other status with InvalidTransition, changing nothing.
C8_Dispute ==
    [][\A id \in CallableIds :
        ActionStep(id, "dispute")
        => /\ wallets' = wallets
           /\ transactions' = transactions
           /\ IF Target(id) = 0
              THEN lastOp'.result = "NotFound" /\ escrows' = escrows
              ELSE IF escrows[Target(id)].status \in {"pending", "signed"}
              THEN escrows' = [escrows EXCEPT ![Target(id)].status = "disputed"]
              ELSE lastOp'.result = "InvalidTransition" /\ escrows' = escrows]_vars

\* the sent entries of the log that settle the escrow with this id
SentEntriesOf(id) ==
    {k \in 1..Len(transactions) :
        transactions[k].type = "sent" /\ transactions[k].escrowId = id}

C10_ExpiredOnAccess ==
    [][\A id \in CallableIds, a \in Actions :
        (/\ Target(id) # 0
         /\ escrows[Target(id)].status \in {"pending", "signed"}
         /\ now > createdAt[Target(id)] + SevenDaysMs
         /\ ActionStep(id, a))
        => LET e == escrows[Target(id)] IN
           /\ escrows'[Target(id)].status = "expired"
           /\ wallets' = [wallets EXCEPT ![CurrencyOf(e)] = @ + AmountOf(e)]]_vars

----------------------------------------------------------------------------
(* Properties of the swap screen *)

\* the step from the current state to the next is a handleSwap call
SwapStep == lastSwap' # lastSwap /\ lastSwap'.op = "swap" /\ HandleSwap

\* what the log records for an asset: its received amounts minus its sent ones
RECURSIVE LogNet(_, _)
LogNet(log, symbol) ==
    IF log = <<>> THEN 0
    ELSE LET e == log[Len(log)] IN
         LogNet(SubSeq(log, 1, Len(log) - 1), symbol)
           + (IF e.currency # symbol THEN 0
              ELSE IF e.type = "received" THEN e.amount ELSE 0 - e.amount)

\* C11: after any sequence of operations every asset balance is non-negative;
\* a debit whose result would be negative fails with InsufficientFunds (the
\* screen's 'Insufficient balance') and leaves the balance unchanged.
C11_NonNegative ==
    /\ [](\A s \in DOMAIN wallets : wallets[s] >= 0)
    /\ [][(/\ SwapStep
           /\ ParseFloat(swapAmount) > 0
           /\ wallets[fromAsset.symbol] - ParseFloat(swapAmount) < 0)
          => (/\ wallets' = wallets
              /\ lastSwap'.toast = [msg |-> "Insufficient balance", kind |-> "error"])]_vars

\* an asset has been swapped away entirely, and a further swap of it has been
\* refused
C11_Witness ==
    /\ lastSwap.toast.msg = "Insufficient balance"
    /\ \E s \in Assets : wallets[s] = 0
    /\ transactions # <<>>

\* C12: executeSwap is atomic: in every state the ledger shows, of every swap,
\* either both its debit and its credit or neither: each balance is the
\* initial balance plus what the log's entries record for the asset, and the
\* log holds the outflow and inflow entries of a swap in pairs.
C12_Atomic ==
    /\ \A s \in Assets : wallets[s] = InitSwapWallets[s] + LogNet(transactions, s)
    /\ Len(transactions) % 2 = 0
    /\ \A k \in 1..Len(transactions) :
          transactions[k].type = (IF k % 2 = 1 THEN "sent" ELSE "received")

\* a swap between two different assets is in progress (isLoading) and the
\* ledger shows both its debit and its credit
C12_Witness ==
    /\ pendingSwaps > 0
    /\ lastSwap.result = "ok"
    /\ lastSwap.from # lastSwap.to
    /\ wallets[lastSwap.from] = lastSwap.balBefore[lastSwap.from] - lastSwap.amount
    /\ wallets[lastSwap.to] = lastSwap.balBefore[lastSwap.to] + lastSwap.credited

\* C13: a swap with amount <= 0 fails with InvalidAmount ('Please enter a valid
\* amount'), one with amount greater than the current balance of from fails
\* with InsufficientFunds ('Insufficient balance'); in both cases no balance
\* changes and no log entry is appended; otherwise from is debited by amount
\* and to is credited by the quoted output (the estimate the screen shows).
C13_SwapOutcomes ==
    [][SwapStep =>
        LET a    == ParseFloat(swapAmount)
            from == fromAsset.symbol
            to   == toAsset.symbol
        IN
        IF a <= 0
        THEN /\ lastSwap'.toast = [msg |-> "Please enter a valid amount", kind |-> "error"]
             /\ wallets' = wallets
             /\ transactions' = transactions
        ELSE IF a > wallets[from]
        THEN /\ lastSwap'.toast = [msg |-> "Insufficient balance", kind |-> "error"]
             /\ wallets' = wallets
             /\ transactions' = transactions
        ELSE /\ lastSwap'.result = "ok"
             /\ wallets' = credit(debit(wallets, from, a), to,
                                  EstimatedOutput(swapAmount, from, to, prices).micro)]_vars

\* a swap between two different assets has debited the one and credited the
\* other
C13_Witness ==
    /\ lastSwap.result = "ok"
    /\ lastSwap.from # lastSwap.to
    /\ lastSwap.amount > 0
    /\ wallets[lastSwap.from] = lastSwap.balBefore[lastSwap.from] - lastSwap.amount
    /\ wallets[lastSwap.to] > lastSwap.balBefore[lastSwap.to]
    /\ Len(transactions) >= 2

\* C14: the quote shown for a positive amount equals amount x rate(from) /
\* rate(to) and is shown with at least 6 fractional digits (100 SUI at rates
\* 1.5 and 1.0 is shown as 150.000000).
C14_QuoteDisplay ==
    (swapMounted /\ swapAmount # <<>> /\ ParseFloat(swapAmount) > 0)
    => LET shown == EstimatedOutput(swapAmount, fromAsset.symbol, toAsset.symbol, prices)
       IN /\ shown.micro = quoteSwap(prices, fromAsset.symbol, toAsset.symbol,
                                     ParseFloat(swapAmount))
          /\ shown.digits >= 6

\* C15: under a fixed price snapshot, a swap of x from A to B followed by a
\* swap from B to A of the amount the first one credited brings the balance
\* of A back to its original value within a relative error of 1e-6 and the
\* balance of B back to its original value.
C15_RoundTrip ==
    lastSwap.reverses
    => LET A == lastSwap.to
           B == lastSwap.from
           orig == lastSwap.origBefore
           diff == IF wallets[A] >= orig[A] THEN wallets[A] - orig[A]
                                            ELSE orig[A] - wallets[A]
       IN /\ diff <= orig[A] \div Micro
          /\ wallets[B] = orig[B]

\* 100 USDC were swapped to SUI and the 66.666667 SUI credited were swapped
\* back: the USDC balance is a millionth off its original value
C15_Witness ==
    /\ lastSwap.reverses
    /\ lastSwap.from # lastSwap.to
    /\ wallets[lastSwap.to] # lastSwap.origBefore[lastSwap.to]
    /\ wallets[lastSwap.from] = lastSwap.origBefore[lastSwap.from]

\* the amounts a debit is tried with
DebitAmounts == {t[1] : t \in {u \in TypedTexts : u # <<>>}}

\* C16: for every asset s and amount a for which debit(s, a) succeeds, debit(s,
\* a) followed by credit(s, a) leaves the balance of s as it was and every
\* other balance unchanged.
C16_DebitCredit ==
    \A s \in Assets, a \in DebitAmounts :
        (a > 0 /\ debitResult(wallets, s, a) = "ok")
        => credit(debit(wallets, s, a), s, a) = wallets

\* an asset has been swapped for itself: debited and credited by the same
\* amount, and the ledger is as before
C16_Witness ==
    /\ lastSwap.result = "ok"
    /\ lastSwap.from = lastSwap.to
    /\ lastSwap.credited = lastSwap.amount
    /\ pendingSwaps > 0
    /\ wallets = lastSwap.balBefore

\* C17: the routing flag does not influence the swap: toggling it leaves the
\* quote shown and every other part of the state as they are, and whatever
\* the flag, a handleSwap call hands swapAssets the selected symbols and the
\* parsed amount, and the ledger and the log become what that call makes them.
C17_MeshNoInfluence ==
    /\ [][(swapMounted /\ swapMounted' /\ useMesh' # useMesh)
          => (/\ UNCHANGED <<wallets, transactions, prices, isLoading, fromAsset,
                            toAsset, swapAmount, pendingSwaps, lastSwap>>
              /\ EstimatedOutput(swapAmount', fromAsset'.symbol, toAsset'.symbol, prices')
                   = EstimatedOutput(swapAmount, fromAsset.symbol, toAsset.symbol, prices))]_vars
    /\ [][(SwapStep /\ lastSwap'.called)
          => (/\ wallets' = executeSwapWallets(wallets, prices, fromAsset.symbol,
                                               toAsset.symbol, ParseFloat(swapAmount))
              /\ transactions' = executeSwapLog(transactions, wallets, prices,
                                                fromAsset.symbol, toAsset.symbol,
                                                ParseFloat(swapAmount)))]_vars

\* a swap was made while routing via the mesh
C17_Witness ==
    /\ lastSwap.result = "ok"
    /\ lastSwap.mesh
    /\ lastSwap.from # lastSwap.to
    /\ wallets[lastSwap.to] = lastSwap.balBefore[lastSwap.to] + lastSwap.credited

\* C18: every place that converts with a rate uses the cached rate of a symbol
\* the cache holds and 1 for a symbol it does not hold: the Exchange Rate row
\* shows rate(from) / rate(to) computed with that fallback, as the quote is.
C18_SameFallback ==
    swapMounted
    => ExchangeRateRow(fromAsset.symbol, toAsset.symbol, prices)
         = [nan |-> FALSE,
            micro |-> RoundDiv(GetRate(prices, fromAsset.symbol)[1]
                                 * GetRate(prices, toAsset.symbol)[2] * Micro,
                               GetRate(prices, fromAsset.symbol)[2]
                                 * GetRate(prices, toAsset.symbol)[1]),
            digits |-> 6]

----------------------------------------------------------------------------
(* Properties of the transaction log *)

\* C20: the transaction log is append-only: all transaction ids in the log are
\* pairwise distinct, an entry once appended never changes or disappears and
\* the entries stay in the order in which they were appended; querying
\* (setting a filter), aggregating and exporting never change the log.
C20_AppendOnly ==
    /\ [](\A i, j \in 1..Len(transactions) :
            i # j => transactions[i].id # transactions[j].id)
    /\ [][/\ Len(transactions') >= Len(transactions)
          /\ SubSeq(transactions', 1, Len(transactions)) = transactions]_vars
    /\ [][historyVars' # historyVars => transactions' = transactions]_vars

\* the log holds entries of both types, the list is filtered by type and by
\* a search text, and it has just been exported
C20_Witness ==
    /\ Len(transactions) >= 2
    /\ \E i, j \in 1..Len(transactions) : transactions[i].type # transactions[j].type
    /\ typeFilter = "sent"
    /\ searchQuery # ""
    /\ lastHist.op = "csv"

----------------------------------------------------------------------------
(* Properties of the history screen *)

\* a is b with some of its elements left out, the others in b's order
RECURSIVE IsSubsequence(_, _)
IsSubsequence(a, b) ==
    IF a = <<>> THEN TRUE
    ELSE IF b = <<>> THEN FALSE
    ELSE IF Head(a) = Head(b) THEN IsSubsequence(Tail(a), Tail(b))
    ELSE IsSubsequence(a, Tail(b))

\* C22: for every transaction list, filtering by type=sent and then filtering
\* the result by type=received yields the empty list, filtering by type=all
\* returns every transaction, and every filtered result is a subsequence of
\* the log in the log's order.
C22_FilterAlgebra ==
    /\ Query(Query(transactions, searchQuery, "sent", dateFilter, clock),
             searchQuery, "received", dateFilter, clock) = <<>>
    /\ TypeFilter(TypeFilter(transactions, "sent"), "received") = <<>>
    /\ TypeFilter(transactions, "all") = transactions
    /\ Query(transactions, "", "all", "all", clock) = transactions
    /\ IsSubsequence(filteredTransactions, transactions)

\* the log holds a received entry followed by a sent one, and the type filter
\* shows the second entry alone
C22_Witness ==
    /\ Len(transactions) = 2
    /\ transactions[1].type = "received"
    /\ transactions[2].type = "sent"
    /\ typeFilter = "sent"
    /\ filteredTransactions = <<transactions[2]>>

\* the date filter keeps the transaction
KeptBy(tx, key) == DateRangeFilter(<<tx>>, key, clock) = <<tx>>

\* C23: the date-range filter keeps a transaction exactly when its parsed
\* date is at or after the window start: no restriction for all, the start of
\* the calendar day for today, and the query time minus 7 days, 1 month and
\* 1 year for week, month and year (rolling, not calendar-aligned); the
\* windows are nested: today within week within month within year within all.
C23_DateWindows ==
    \A now1 \in {Fields(clock)} :
    \A i \in 1..Len(transactions) :
    \A t \in {parseDate(transactions[i].date, clock)} :
    \A all   \in {KeptBy(transactions[i], "all")},
       today \in {KeptBy(transactions[i], "today")},
       week  \in {KeptBy(transactions[i], "week")},
       month \in {KeptBy(transactions[i], "month")},
       year  \in {KeptBy(transactions[i], "year")} :
        /\ all
        /\ today <=> t >= (clock \div MinutesPerDay) * MinutesPerDay
        /\ week <=> t >= clock - 7 * MinutesPerDay
        /\ month <=> t >= MakeDate(now1.year, now1.month - 1, now1.date, now1.minute)
        /\ year <=> t >= MakeDate(now1.year - 1, now1.month, now1.date, now1.minute)
        /\ today => week
        /\ week => month
        /\ month => year
        /\ year => all

\* on 31 March the month filter shows the entry of 15 March and not the one
\* of 40 days ago, and the week filter shows neither
C23_Witness ==
    /\ clock = SessionStart
    /\ dateFilter = "month"
    /\ Len(transactions) = 2
    /\ transactions[1].date = Ago(40, "days")
    /\ transactions[2].date = Iso(2024, 3, 15)
    /\ filteredTransactions = <<transactions[2]>>
    /\ Query(transactions, searchQuery, typeFilter, "week", clock) = <<>>
    /\ Len(Query(transactions, searchQuery, typeFilter, "year", clock)) = 2

\* C24: a stored date is parsed as: a 'today' marker gives the query time, a
\* 'yesterday' marker one day earlier, an 'N days ago' marker N days earlier
\* for every N >= 1, an ISO date that date, and any other text the query
\* time, so that a record with an unparsable date passes every date filter.
C24_ParseDate ==
    \A i \in 1..Len(transactions) :
        LET date == transactions[i].date
            t    == parseDate(date, clock)
        IN
        /\ date = Word("Today") => t = clock
        /\ date = Word("Yesterday") => t = clock - MinutesPerDay
        /\ (date.kind = "ago" /\ date.n >= 1) => t = clock - date.n * MinutesPerDay
        /\ date.kind = "iso" => t = MakeDate(date.y, date.m, date.d, 0)
        /\ date = Word("Pending")
             => (t = clock /\ \A k \in DateFilters : KeptBy(transactions[i], k))

\* the sum of amount x rate over the entries of a list at the given indices
RECURSIVE FiatSumAt(_, _, _)
FiatSumAt(list, indices, p) ==
    IF indices = {} THEN <<0, 1>>
    ELSE LET i == CHOOSE i \in indices : TRUE IN
         FracAdd(<<ParseAmount(list[i].amount) * getRate(p, list[i].currency)[1],
                   getRate(p, list[i].currency)[2]>>,
                 FiatSumAt(list, indices \ {i}, p))

\* stats of a filtered list are its counts and its sums at the given prices
AggregateOf(filtered, p) ==
    LET st       == stats(filtered, p)
        sent     == {i \in 1..Len(filtered) : filtered[i].type = "sent"}
        received == {i \in 1..Len(filtered) : filtered[i].type = "received"}
    IN
    /\ st.sentCount = Cardinality(sent)
    /\ st.receivedCount = Cardinality(received)
    /\ st.sentCount + st.receivedCount = Len(filtered)
    /\ FracEq(st.totalSent, FiatSumAt(filtered, sent, p))
    /\ FracEq(st.totalReceived, FiatSumAt(filtered, received, p))
    /\ FracEq(st.netFlow, FracSub(FiatSumAt(filtered, received, p),
                                  FiatSumAt(filtered, sent, p)))

\* C25: aggregate over a filtered list returns the numbers of its sent and
\* received entries (summing to its length), the sums of amount x current
\* rate over the sent and over the received entries, and netFlow =
\* totalReceived - totalSent, at the prices of the cache in every state, so
\* also after a price refresh, which leaves the entries of the log as they
\* are: the log stores no price.
C25_Aggregate ==
    /\ [](\A f \in {filteredTransactions} : AggregateOf(f, prices))
    /\ [][prices' # prices => transactions' = transactions]_vars

\* the price of SUI has been dropped from the cache, and the sum of the sent
\* entries shown, one of them in SUI, is no longer what it was at the first
\* prices
C25_Witness ==
    /\ prices = PartialPrices
    /\ \E f \in {filteredTransactions} :
         /\ \E i \in 1..Len(f) : f[i].type = "sent" /\ f[i].currency = "SUI"
         /\ stats(f, prices).sentCount >= 1
         /\ ~FracEq(stats(f, prices).totalSent, stats(f, FullPrices).totalSent)

\* C26: tabular export of a filtered list emits the header row
\* ID,Type,Amount,Currency,Recipient,Date and then one row per filtered
\* transaction, in the filtered order, each row its six fields id, type,
\* amount, currency, recipient, date, each in double quotes, joined by
\* commas; for the single transaction 1 / sent / 100 / USD / Jane Cooper /
\* Today the file is the header and one row of these fields.
C26_CsvExport ==
    [][ExportToCSV =>
        \A f \in {filteredTransactions} :
        LET q(cell) == [open |-> "\"", text |-> cell, close |-> "\""] IN
        /\ Len(lastHist'.file) = Len(f) + 1
        /\ lastHist'.file[1]
             = <<"ID", ",", "Type", ",", "Amount", ",", "Currency", ",",
                 "Recipient", ",", "Date">>
        /\ \A i \in 1..Len(f) :
             lastHist'.file[i + 1]
               = <<q(f[i].id), ",", q(f[i].type), ",", q(f[i].amount), ",",
                   q(f[i].currency), ",", q(f[i].recipient), ",", q(f[i].date)>>
        /\ (/\ Len(transactions) = 1
            /\ transactions[1].type = "sent"
            /\ f = transactions)
           => lastHist'.file[2]
                = <<q(1), ",", q("sent"), ",", q(<<100>>), ",", q("USD"), ",",
                    q("Jane Cooper"), ",", q(Word("Today"))>>]_vars

\* a log of three entries was exported under the type filter sent: the file
\* holds the header and the rows of the first and the third entry
C26_Witness ==
    /\ lastHist.op = "csv"
    /\ Len(transactions) = 3
    /\ typeFilter = "sent"
    /\ Len(lastHist.file) = 3
    /\ lastHist.file[2][1].text = 1
    /\ lastHist.file[3][1].text = 3

----------------------------------------------------------------------------
(* Properties of the cross-border transfer *)

\* the step from the current state to the next is this resolve call
ResolveStep(tagOrPhone) ==
    lastTransfer'.op = "resolve" /\ resolveRecipient(tagOrPhone)

\* C28: resolve(tagOrPhone) fails with UnresolvedRecipient whenever the tag or
\* phone matches no directory entry, and a cross-border transfer is never
\* confirmed or executed (no debit, no log entry) for a recipient that did
\* not resolve; unlike escrow creation, there is no fallback to the literal
\* string: a resolved recipient and every entry of the log carry the address
\* and the name of a directory entry.
C28_NoUnresolvedTransfer ==
    /\ [][\A t \in TagsOrPhones :
            (ResolveStep(t) /\ \A c \in contacts : c.name # t)
            => (/\ resolution'.status = "UnresolvedRecipient"
                /\ lastTransfer'.result = "UnresolvedRecipient")]_vars
    /\ [][(wallets' # wallets \/ transactions' # transactions)
          => (/\ resolution.status = "ok"
              /\ \E c \in contacts : c.address = resolution.address)]_vars
    /\ [](resolution.status = "ok"
            => \E c \in contacts :
                  c.address = resolution.address /\ c.name = resolution.name)
    /\ [](\A i \in 1..Len(transactions) :
            \E c \in contacts :
                /\ transactions[i].address = c.address
                /\ transactions[i].recipient = c.name)

\* a transfer to a resolved recipient was executed, then a tag the directory
\* does not hold was entered and refused
C28_Witness ==
    /\ Len(transactions) >= 1
    /\ wallets["USD"] < InitWallets["USD"]
    /\ lastTransfer.op = "resolve"
    /\ lastTransfer.result = "UnresolvedRecipient"
    /\ resolution.status = "UnresolvedRecipient"

----------------------------------------------------------------------------
(* Properties of the escrow screen, continued *)

\* C21: after any sequence of createEscrow operations the escrows of the
\* registry have pairwise distinct ids, whatever the times of the creations.
\* The id is the last six digits of the clock reading (line 268), so two
\* creations at the same reading, or at readings a multiple of 1,000,000 ms
\* apart, carry the same id.
C21_DistinctIds ==
    \A i, j \in 1..Len(escrows) : i # j => escrows[i].id # escrows[j].id

\* C27 (escrow screen): an operation that fails produces one failure
\* notification and no success notification.  The operations are an escrow
\* creation whose local createEscrow or whose on-chain settlement fails, and
\* a release that the registry refuses.
C27_FailureNotified ==
    [][/\ \A k \in 1..Len(pendingOnChain), o \in {"resolved", "rejected"} :
            (/\ SettleStep(k, o)
             /\ (o = "rejected" \/ pendingOnChain[k].local # "ok"))
            => lastOp'.toast.kind = "error"
       /\ \A id \in CallableIds :
            (ActionStep(id, "release") /\ lastOp'.result # "ok")
            => lastOp'.toast.kind = "error"]_vars

\* the amounts of the escrows of one currency whose status is in a set
RECURSIVE EscrowedSum(_, _, _)
EscrowedSum(reg, currency, statuses) ==
    IF reg = <<>> THEN 0
    ELSE (IF CurrencyOf(Head(reg)) = currency /\ Head(reg).status \in statuses
          THEN AmountOf(Head(reg)) ELSE 0)
         + EscrowedSum(Tail(reg), currency, statuses)

\* C29: funds are conserved across the escrow lifecycle.  For every currency
\* the creator's balance plus the amounts held by pending, signed and
\* disputed escrows plus the amounts of released escrows is the initial
\* balance; an amount is debited once, by the creation of its escrow, is paid
\* out at most once (one sent entry per released escrow), and is never both
\* paid out and credited back: the balance rises only for an escrow that
\* ends refunded or expired.
C29_FundsConserved ==
    /\ [](\A c \in Currencies :
            wallets[c]
              + EscrowedSum(escrows, c, {"pending", "signed", "disputed"})
              + EscrowedSum(escrows, c, {"released"})
            = InitWallets[c])
    /\ [](\A i \in 1..Len(escrows) :
            Cardinality(SentEntriesOf(escrows[i].id))
              = Cardinality({j \in 1..Len(escrows) :
                               /\ escrows[j].id = escrows[i].id
                               /\ escrows[j].status = "released"}))
    /\ [][\A c \in Currencies :
            /\ wallets'[c] < wallets[c]
                 => (/\ lastOp'.op = "create"
                     /\ Len(escrows') = Len(escrows) + 1
                     /\ CurrencyOf(escrows'[Len(escrows')]) = c
                     /\ wallets[c] - wallets'[c] = AmountOf(escrows'[Len(escrows')]))
            /\ wallets'[c] > wallets[c]
                 => \E i \in 1..Len(escrows) :
                      /\ escrows[i].status \in {"pending", "signed", "disputed"}
                      /\ escrows'[i].status \in {"refunded", "expired"}
                      /\ wallets'[c] - wallets[c] = AmountOf(escrows[i])]_vars

\* two escrows of one currency were created and debited, one has been
\* released and paid out once, the other is still held
C29_Witness ==
    /\ Len(escrows) = 2
    /\ CurrencyOf(escrows[1]) = CurrencyOf(escrows[2])
    /\ escrows[1].status = "released"
    /\ escrows[2].status = "pending"
    /\ Len(transactions) = 1
    /\ wallets[CurrencyOf(escrows[1])]
         = InitWallets[CurrencyOf(escrows[1])] - AmountOf(escrows[1]) - AmountOf(escrows[2])

----------------------------------------------------------------------------
(* Properties of the swap screen, continued *)

\* C30: whenever handleSwap calls swapAssets(from, to, amount), amount is
\* greater than 0 and at most the ledger's current balance of the from
\* asset, the balance the handler compared with is that current balance, and
\* from differs from to, after any selections, switches, amount edits and
\* balance changes.
C30_SwapCall ==
    lastSwap.called
    => (/\ lastSwap.amount > 0
        /\ lastSwap.amount <= lastSwap.balBefore[lastSwap.from]
        /\ ~lastSwap.stale
        /\ lastSwap.from # lastSwap.to)

\* the part of the statement about the amount: whenever handleSwap calls
\* swapAssets(from, to, amount), amount is greater than 0 and at most the
\* ledger's current balance of the from asset, and the balance the handler
\* compared with is that current balance
C30_SwapCallAmounts ==
    lastSwap.called
    => (/\ lastSwap.amount > 0
        /\ lastSwap.amount <= lastSwap.balBefore[lastSwap.from]
        /\ ~lastSwap.stale)

\* the modal has put one asset on both sides and handleSwap has called
\* swapAssets with it, for an amount within its balance
C30_Witness ==
    /\ lastSwap.called
    /\ lastSwap.from = lastSwap.to
    /\ lastSwap.amount > 0
    /\ lastSwap.amount <= lastSwap.balBefore[lastSwap.from]
    /\ Len(transactions) >= 2

====
